---- MODULE Spec2Model ----
(***************************************************************************)
(* Model of the coordination code of the exposure-notifications server:    *)
(*   - internal/database/lock.go: the TTL lock kept in the Lock table      *)
(*     (DB.Lock and the UnlockFn built by buildUnlockFn);                  *)
(*   - the federation bookkeeping (GetFederationQuery, AddFederationQuery, *)
(*     StartFederationSync and the FinalizeSyncFn it returns).             *)
(*                                                                         *)
(* A table holds the committed rows.  A transaction (pgx.Serializable)     *)
(* reads the snapshot taken by its first statement.  A statement that      *)
(* writes a row waits while another open transaction has written that row, *)
(* and fails with a serialization error when the row was written by a      *)
(* transaction that committed after the snapshot (first updater wins).     *)
(* Between its last write and its commit a transaction does nothing any    *)
(* other caller can see, so the writes of a transaction and its tx.Commit  *)
(* are one step, taken at the commit; a caller that would wait for it is   *)
(* a caller that has not taken its own step yet.                           *)
(*                                                                         *)
(* LockSpec is the lock with three callers; FedSpec is the bookkeeping of  *)
(* two sync runs over two configured queries.                              *)
(***************************************************************************)
EXTENDS Integers, Sequences, FiniteSets, TLC

\* ------------------------------------------------------------------ bounds
MaxTime == 2
MaxUnlocks == 2
MaxTimestamp == 1
MaxFinalize == 2
MaxAdds == 2
MaxRegions == 2
MaxLen == 3
MaxRecordCount == 12
MaxCap == 4

Callers == {1, 2, 3}
LockIDs == {"export", "sync"}
TTLs == {1, 2}

Runs == {1, 2}
QueryIDs == {"q1", "q2"}
SyncIDs == {1, 2}
Timestamps == 0 .. MaxTimestamp
Inserted == {0, 1}
StartTimes == {1}

\* ------------------------------------------------------------------ state
VARIABLES
    now,          \* time.Now().UTC(), one clock for all callers
    lockTable,    \* table Lock: lock_id -> committed row
    lockVer,      \* number of committed writes of each Lock row
    pc,           \* position of each caller in Lock / UnlockFn
    lockID,       \* argument lockID of the caller's Lock call
    ttl,          \* argument ttl of the caller's Lock call
    snap,         \* snapshot of the open transaction: the row and its version
    expiry,       \* local expiry (line 73)
    unlockFn,     \* result unlockFn of Lock is non-nil
    err,          \* result err of Lock
    unlockErr,    \* result of the last UnlockFn invocation
    invoked,      \* number of invocations of the caller's UnlockFn
    misused,      \* an UnlockFn ran after its TTL elapsed, or a second time
    seen,         \* what the SELECT of the caller's Lock call read (history)
    queryTable,   \* table FederationQuery: query_id -> committed row
    queryVer,     \* number of committed writes of each FederationQuery row
    syncTable,    \* table FederationSync: sync_id -> committed row
    fpc,          \* position of each sync run in StartFederationSync / finalize
    sync,         \* what the finalize closure captured (syncID, q, started, ...)
    fin,          \* arguments and locals of the running finalize call
    finErr,       \* result of the last finalize call
    finalized,    \* number of invocations of the run's finalize function
    apc,          \* position of the operator in AddFederationQuery
    addQ,         \* argument q of AddFederationQuery, and what its SELECT read
    addErr,       \* result of the last AddFederationQuery call
    added,        \* number of AddFederationQuery calls
    got,          \* result of the last GetFederationQuery call
    flags,        \* command line of the federation-query tool
    cpc,          \* position of the federation-query tool in main
    exit,         \* message of the log.Fatalf that ended the tool, if any
    env,          \* environment of the export server
    epc,          \* position of the export server in main
    bsc,          \* api.BatchServerConfig built by the export server
    cfg,          \* argument cfg of VerifyRegions
    data,         \* argument data of VerifyRegions (its Regions)
    verifyErr,    \* result of VerifyRegions
    records,      \* number of eligible records of one region and window
    workItems,    \* work items the controller has created for them
    batches       \* count of batches the controller has returned

lockVars == <<lockTable, lockVer, pc, lockID, ttl, snap, expiry, unlockFn,
              err, unlockErr, invoked, misused, seen>>

fedVars == <<queryTable, queryVer, syncTable, fpc, sync, fin, finErr,
             finalized, apc, addQ, addErr, added>>

cliVars == <<flags, cpc, exit>>

exportVars == <<env, epc, bsc>>

verifyVars == <<cfg, data, verifyErr>>

batchVars == <<records, workItems, batches>>

toolVars == <<got, cliVars, exportVars, verifyVars, batchVars>>

vars == <<now, lockVars, fedVars, toolVars>>

\* ------------------------------------------------------------- Lock table
NoRow == [existing |-> FALSE, expires |-> 0]
Row(e) == [existing |-> TRUE, expires |-> e]

Snapshot(r, v) == [row |-> r, ver |-> v]

\* The version of the row a Lock call read, and whether it read a lock that
\* was free then (no row, or an expired one).
Seen(v, f) == [ver |-> v, free |-> f]

ErrAlreadyLocked == "ErrAlreadyLocked"
ErrStatement == "statement error"
ErrCommit == "failed to commit"
Nil == "nil"
NoID == "none"

\* Mutant of SerializationFailure: the transaction never notices a row written
\* since its snapshot (a weaker isolation level than pgx.Serializable).
NoSerializationFailure(p, id) == FALSE

\* The row was written by a transaction that committed after the snapshot was
\* taken: a serializable transaction may not write it any more.
SerializationFailure(p, id) == lockVer[id] # snap[p].ver

\* ------------------------------------------------------------------- Init
LockInit ==
    /\ now = 0
    /\ lockTable = [id \in LockIDs |-> NoRow]
    /\ lockVer = [id \in LockIDs |-> 0]
    /\ pc = [p \in Callers |-> "idle"]
    /\ lockID = [p \in Callers |-> NoID]
    /\ ttl = [p \in Callers |-> 0]
    /\ snap = [p \in Callers |-> Snapshot(NoRow, 0)]
    /\ expiry = [p \in Callers |-> 0]
    /\ unlockFn = [p \in Callers |-> FALSE]
    /\ err = [p \in Callers |-> Nil]
    /\ unlockErr = [p \in Callers |-> Nil]
    /\ invoked = [p \in Callers |-> 0]
    /\ misused = FALSE
    /\ seen = [p \in Callers |-> Seen(0, FALSE)]

\* ------------------------------------------------------------------ clock
Tick ==
    /\ now < MaxTime
    /\ now' = now + 1
    /\ UNCHANGED <<lockVars, fedVars, toolVars>>

\* time.Now().UTC() (part_000 lines 315 and 334) is a reading of the wall
\* clock without the monotonic reading, which UTC() strips; the wall clock is
\* set back when the system clock is corrected.
ClockSetBack ==
    /\ now > 0
    /\ now' = now - 1
    /\ UNCHANGED <<lockVars, fedVars, toolVars>>

\* ---------------------------------------------------------------- DB.Lock
\* time.Now().UTC().Add(ttl), line 73
Expiry(t, d) == t + d

\* Mutants of Expired: a lock is never taken for expired; always; and already
\* at the instant of its expiry.
ExpiredNever(t, row) == FALSE
ExpiredAlways(t, row) == TRUE
ExpiredInclusive(t, row) == t >= row.expires

\* time.Now().UTC().After(l.Expires), line 76
Expired(t, row) == t > row.expires

\* model.Lock l and existing, lines 63-71: the row the SELECT returned.
l(p) == snap[p].row

\* Callers are numbered in the order in which they call Lock.
Started(p) == \A q \in Callers : q < p => pc[q] # "idle"

\* Lines 38-73: Lock(ctx, id, d) takes a connection, begins the transaction,
\* runs the SELECT (the snapshot of the transaction is the one of this first
\* statement), scans the row into l and computes expiry.
LockSelect(p, id, d) ==
    /\ pc[p] = "idle"
    /\ Started(p)
    /\ pc' = [pc EXCEPT ![p] = "selected"]
    /\ lockID' = [lockID EXCEPT ![p] = id]
    /\ ttl' = [ttl EXCEPT ![p] = d]
    /\ snap' = [snap EXCEPT ![p] = Snapshot(lockTable[id], lockVer[id])]
    /\ expiry' = [expiry EXCEPT ![p] = Expiry(now, d)]
    /\ seen' = [seen EXCEPT ![p] = Seen(lockVer[id],
                     ~lockTable[id].existing \/ now > lockTable[id].expires)]
    /\ UNCHANGED <<now, lockTable, lockVer, unlockFn, err, unlockErr,
                   invoked, misused,
                   fedVars, toolVars>>

\* Line 74-76: the lock is taken by somebody else (the row exists and is not
\* expired).
Held(p) == l(p).existing /\ ~Expired(now, l(p))

\* Lines 74-90, the row exists and is not expired: return nil,
\* ErrAlreadyLocked; commit is false and the deferred finishTx rolls back.
LockAlreadyLocked(p) ==
    /\ pc[p] = "selected"
    /\ Held(p)
    /\ pc' = [pc EXCEPT ![p] = "returned"]
    /\ err' = [err EXCEPT ![p] = ErrAlreadyLocked]
    /\ snap' = [snap EXCEPT ![p] = Snapshot(NoRow, 0)]
    /\ ttl' = [ttl EXCEPT ![p] = 0]
    /\ expiry' = [expiry EXCEPT ![p] = 0]
    /\ UNCHANGED <<now, lockTable, lockVer, lockID, unlockFn,
                   unlockErr, invoked, misused, seen,
                   fedVars, toolVars>>

\* Lines 84-86 and 100-102, the UPDATE or the INSERT fails because the row was
\* written by a transaction that committed after the SELECT: return nil and
\* the wrapped error; finishTx rolls back.
LockWriteFails(p) ==
    /\ pc[p] = "selected"
    /\ ~Held(p)
    /\ SerializationFailure(p, lockID[p])
    /\ pc' = [pc EXCEPT ![p] = "returned"]
    /\ err' = [err EXCEPT ![p] = ErrStatement]
    /\ snap' = [snap EXCEPT ![p] = Snapshot(NoRow, 0)]
    /\ ttl' = [ttl EXCEPT ![p] = 0]
    /\ expiry' = [expiry EXCEPT ![p] = 0]
    /\ UNCHANGED <<now, lockTable, lockVer, lockID, unlockFn,
                   unlockErr, invoked, misused, seen,
                   fedVars, toolVars>>

\* Mutant of LockRow: the write is lost (the transaction was not committed).
LockRowLost(p) == lockTable[lockID[p]]

\* The row written by the UPDATE of lines 77-83 and by the INSERT of lines
\* 94-99: expires = expiry.
LockRow(p) == Row(expiry[p])

\* Lines 77-88 and 94-105 and the deferred finishTx of line 49: the UPDATE or
\* the INSERT succeeds, commit = true, the return statement sets the result
\* unlockFn, and tx.Commit succeeds.
LockCommit(p) ==
    /\ pc[p] = "selected"
    /\ ~Held(p)
    /\ ~SerializationFailure(p, lockID[p])
    /\ lockTable' = [lockTable EXCEPT ![lockID[p]] = LockRow(p)]
    /\ lockVer' = [lockVer EXCEPT ![lockID[p]] = @ + 1]
    /\ unlockFn' = [unlockFn EXCEPT ![p] = TRUE]
    /\ pc' = [pc EXCEPT ![p] = "returned"]
    /\ snap' = [snap EXCEPT ![p] = Snapshot(NoRow, 0)]
    /\ ttl' = [ttl EXCEPT ![p] = 0]
    /\ UNCHANGED <<now, lockID, expiry, err, unlockErr, invoked, misused, seen,
                   fedVars, toolVars>>

\* The same, but tx.Commit fails: the table is unchanged, the result unlockFn
\* was set by the return statement and finishTx stores the error in the named
\* result err.
LockCommitFails(p) ==
    /\ pc[p] = "selected"
    /\ ~Held(p)
    /\ ~SerializationFailure(p, lockID[p])
    /\ unlockFn' = [unlockFn EXCEPT ![p] = TRUE]
    /\ err' = [err EXCEPT ![p] = ErrCommit]
    /\ pc' = [pc EXCEPT ![p] = "returned"]
    /\ snap' = [snap EXCEPT ![p] = Snapshot(NoRow, 0)]
    /\ ttl' = [ttl EXCEPT ![p] = 0]
    /\ expiry' = [expiry EXCEPT ![p] = 0]
    /\ UNCHANGED <<now, lockTable, lockVer, lockID, unlockErr,
                   invoked, misused, seen,
                   fedVars, toolVars>>

\* ----------------------------------------------------------- buildUnlockFn
\* The number of UnlockFn invocations made so far, by all callers.
RECURSIVE Invocations(_)
Invocations(S) ==
    IF S = {} THEN 0
    ELSE LET p == CHOOSE q \in S : TRUE IN invoked[p] + Invocations(S \ {p})

\* The caller invokes the UnlockFn its Lock call returned with a nil error.
\* Lines 110-121 and the start of the DELETE, whose snapshot this is.
UnlockBegin(p) ==
    /\ pc[p] = "returned"
    /\ unlockFn[p]
    /\ err[p] = Nil
    /\ Invocations(Callers) < MaxUnlocks
    /\ invoked' = [invoked EXCEPT ![p] = @ + 1]
    /\ misused' = (misused \/ now > expiry[p] \/ invoked[p] > 0)
    /\ snap' = [snap EXCEPT ![p] = Snapshot(lockTable[lockID[p]], lockVer[lockID[p]])]
    /\ pc' = [pc EXCEPT ![p] = "unlocking"]
    /\ UNCHANGED <<now, lockTable, lockVer, lockID, ttl, expiry, unlockFn,
                   err, unlockErr, seen,
                   fedVars, toolVars>>

\* Mutant of Deletes: the DELETE removes the row only once it has expired.
DeletesExpired(p) == snap[p].row.existing /\ now > snap[p].row.expires

\* Mutant of Deletes: the DELETE removes the row only when it is the one the
\* caller's own Lock call wrote.
DeletesOwnRow(p) == snap[p].row.existing /\ snap[p].row.expires = expiry[p]

\* The DELETE of lines 123-127 removes the row with that lock_id that its
\* snapshot shows, whoever wrote it.
Deletes(p) == snap[p].row.existing

\* Lines 123-133 and the deferred finishTx of line 121: the DELETE succeeds
\* (deleting nothing when its snapshot has no row with that lock_id),
\* commit = true and tx.Commit succeeds.
UnlockCommit(p) ==
    /\ pc[p] = "unlocking"
    /\ \/ /\ Deletes(p)
          /\ ~SerializationFailure(p, lockID[p])
          /\ lockTable' = [lockTable EXCEPT ![lockID[p]] = NoRow]
          /\ lockVer' = [lockVer EXCEPT ![lockID[p]] = @ + 1]
       \/ /\ ~Deletes(p)
          /\ UNCHANGED <<lockTable, lockVer>>
    /\ unlockErr' = [unlockErr EXCEPT ![p] = Nil]
    /\ pc' = [pc EXCEPT ![p] = "returned"]
    /\ snap' = [snap EXCEPT ![p] = Snapshot(NoRow, 0)]
    /\ UNCHANGED <<now, lockID, ttl, expiry, unlockFn, err, invoked,
                   misused, seen, fedVars, toolVars>>

\* Lines 128-130, the DELETE fails because the row was written by a
\* transaction that committed after the snapshot: finishTx rolls back.
UnlockDeleteFails(p) ==
    /\ pc[p] = "unlocking"
    /\ Deletes(p)
    /\ SerializationFailure(p, lockID[p])
    /\ unlockErr' = [unlockErr EXCEPT ![p] = ErrStatement]
    /\ pc' = [pc EXCEPT ![p] = "returned"]
    /\ snap' = [snap EXCEPT ![p] = Snapshot(NoRow, 0)]
    /\ UNCHANGED <<now, lockTable, lockVer, lockID, ttl, expiry, unlockFn,
                   err, invoked, misused, seen,
                   fedVars, toolVars>>

\* Line 121, the DELETE succeeds and tx.Commit fails: the row stays.
UnlockCommitFails(p) ==
    /\ pc[p] = "unlocking"
    /\ Deletes(p) => ~SerializationFailure(p, lockID[p])
    /\ unlockErr' = [unlockErr EXCEPT ![p] = ErrCommit]
    /\ pc' = [pc EXCEPT ![p] = "returned"]
    /\ snap' = [snap EXCEPT ![p] = Snapshot(NoRow, 0)]
    /\ UNCHANGED <<now, lockTable, lockVer, lockID, ttl, expiry, unlockFn,
                   err, invoked, misused, seen,
                   fedVars, toolVars>>

\* =================================================== federation bookkeeping
\* SQL NULL: completed, insertions and max_timestamp of a row that
\* StartFederationSync inserted (lines 317-322 name three columns only).
Null == -1

\* model.FederationQuery, and a FederationQuery row (lines 210-220, 265-269).
NoQuery ==
    [existing |-> FALSE, server_addr |-> "", include_regions |-> <<>>,
     exclude_regions |-> <<>>, last_timestamp |-> 0]

QueryRow(q) ==
    [existing |-> TRUE, server_addr |-> q.ServerAddr,
     include_regions |-> q.IncludeRegions,
     exclude_regions |-> q.ExcludeRegions,
     last_timestamp |-> q.LastTimestamp]

\* The values of q the operator passes to AddFederationQuery.
FederationQueries ==
    {[QueryID |-> id, ServerAddr |-> c.addr, IncludeRegions |-> c.inc,
      ExcludeRegions |-> c.exc, LastTimestamp |-> t] :
        id \in QueryIDs, t \in Timestamps,
        c \in {[addr |-> "peer1:443", inc |-> <<"US">>, exc |-> <<>>],
               [addr |-> "peer2", inc |-> <<>>, exc |-> <<"MX">>]}}

\* model.FederationSync, and a FederationSync row (lines 291-298).
NoSync ==
    [existing |-> FALSE, query_id |-> NoID, started |-> 0, completed |-> Null,
     insertions |-> Null, max_timestamp |-> Null]

\* The row inserted by lines 317-322.
SyncRow(qid, st) ==
    [existing |-> TRUE, query_id |-> qid, started |-> st, completed |-> Null,
     insertions |-> Null, max_timestamp |-> Null]

\* What the closure finalize captures: syncID, q, started, startedTimer.
NoClosure == [syncID |-> 0, queryID |-> NoID, started |-> 0, startedTimer |-> 0]

\* The locals of a finalize call: its arguments, completed (line 334), and
\* what the snapshot of its transaction shows of the owning query's row.
NoCall ==
    [maxTimestamp |-> 0, totalInserted |-> 0, completed |-> 0,
     existing |-> FALSE, ver |-> 0]

\* The locals of an AddFederationQuery call: q, existing (lines 244-251) and
\* the version of the row its SELECT read.
NoAdd == [q |-> NoQuery, id |-> NoID, existing |-> FALSE, ver |-> 0]

\* The tables before any sync run: the operator has configured both queries,
\* and "q1" has been pulled up to some timestamp.
FedInit ==
    /\ \E t \in Timestamps :
          queryTable =
              [id \in QueryIDs |->
                  IF id = "q1"
                  THEN QueryRow([QueryID |-> id, ServerAddr |-> "peer1:443",
                                 IncludeRegions |-> <<"US">>,
                                 ExcludeRegions |-> <<>>,
                                 LastTimestamp |-> t])
                  ELSE QueryRow([QueryID |-> id, ServerAddr |-> "peer2",
                                 IncludeRegions |-> <<>>,
                                 ExcludeRegions |-> <<"MX">>,
                                 LastTimestamp |-> 0])]
    /\ queryVer = [id \in QueryIDs |-> 0]
    /\ syncTable = [sid \in SyncIDs |-> NoSync]
    /\ fpc = [r \in Runs |-> "idle"]
    /\ sync = [r \in Runs |-> NoClosure]
    /\ fin = [r \in Runs |-> NoCall]
    /\ finErr = [r \in Runs |-> Nil]
    /\ finalized = [r \in Runs |-> 0]
    /\ apc = "idle"
    /\ addQ = NoAdd
    /\ addErr = Nil
    /\ added = 0

\* ----------------------------------------------------- StartFederationSync
\* Sync runs are numbered in the order in which they start.
RunStarted(r) == \A o \in Runs : o < r => fpc[o] # "idle"

\* syncID, line 316: uuid.New() is an id no row has (ids are numbered in the
\* order in which they are drawn).
NewSyncID(sid) ==
    /\ ~syncTable[sid].existing
    /\ \A o \in SyncIDs : o < sid => syncTable[o].existing

\* Lines 309-325 and 374: the INSERT runs outside any transaction and is
\* committed at once.
StartFederationSync(r, qid, started) ==
    /\ fpc[r] = "idle"
    /\ RunStarted(r)
    /\ \E sid \in SyncIDs :
          /\ NewSyncID(sid)
          /\ syncTable' = [syncTable EXCEPT ![sid] = SyncRow(qid, started)]
          /\ sync' = [sync EXCEPT ![r] =
                         [syncID |-> sid, queryID |-> qid,
                          started |-> started, startedTimer |-> now]]
    /\ fpc' = [fpc EXCEPT ![r] = "started"]
    /\ UNCHANGED <<now, lockVars, toolVars, queryTable, queryVer, fin, finErr,
                   finalized, apc, addQ, addErr, added>>

\* ----------------------------------------------------------------- finalize
\* The number of finalize invocations made so far, by all runs.
RECURSIVE Finalizations(_)
Finalizations(S) ==
    IF S = {} THEN 0
    ELSE LET r == CHOOSE o \in S : TRUE IN finalized[r] + Finalizations(S \ {r})

\* completed, line 334: started.Add(time.Now().UTC().Sub(startedTimer))
Completed(c, t) == c.started + (t - c.startedTimer)

\* Lines 328-340: finalize(maxTimestamp, totalInserted) takes a connection,
\* computes completed and begins the transaction, whose snapshot this is.
FinalizeBegin(r, maxTimestamp, totalInserted) ==
    /\ fpc[r] = "started"
    /\ Finalizations(Runs) < MaxFinalize
    /\ finalized' = [finalized EXCEPT ![r] = @ + 1]
    /\ fin' = [fin EXCEPT ![r] =
                  [maxTimestamp |-> maxTimestamp,
                   totalInserted |-> totalInserted,
                   completed |-> Completed(sync[r], now),
                   existing |-> queryTable[sync[r].queryID].existing,
                   ver |-> queryVer[sync[r].queryID]]]
    /\ fpc' = [fpc EXCEPT ![r] = "finalizing"]
    /\ UNCHANGED <<now, lockVars, toolVars, queryTable, queryVer, syncTable, sync,
                   finErr, apc, addQ, addErr, added>>

\* Mutant of UpdatesQuery: the cursor is written on every finalize.
UpdatesQueryAlways(r) == TRUE

\* Line 344: if totalInserted > 0
UpdatesQuery(r) == fin[r].totalInserted > 0

\* The UPDATE of lines 345-351 finds a row to write: the snapshot of the
\* transaction has a row with query_id = q.QueryID.
WritesQuery(r) == UpdatesQuery(r) /\ fin[r].existing

\* That row was written by a transaction that committed after the snapshot.
QueryConflict(r) == WritesQuery(r) /\ queryVer[sync[r].queryID] # fin[r].ver

\* Mutant of FinalizedQueries: an UPDATE without its WHERE clause.
FinalizedAllQueries(r) ==
    [id \in QueryIDs |->
        IF WritesQuery(r) /\ queryTable[id].existing
        THEN [queryTable[id] EXCEPT !.last_timestamp = fin[r].maxTimestamp]
        ELSE queryTable[id]]

\* Table FederationQuery after lines 344-355:
\* UPDATE FederationQuery SET last_timestamp = $1 WHERE query_id = $2
FinalizedQueries(r) ==
    IF WritesQuery(r)
    THEN [queryTable EXCEPT
             ![sync[r].queryID].last_timestamp = fin[r].maxTimestamp]
    ELSE queryTable

\* Mutant of FinalizedSyncs: the history row is completed only when the
\* cursor was moved.
FinalizedSyncsOnProgress(r) ==
    IF fin[r].totalInserted > 0
    THEN [syncTable EXCEPT ![sync[r].syncID] =
             [@ EXCEPT !.completed = fin[r].completed,
                       !.insertions = fin[r].totalInserted,
                       !.max_timestamp = fin[r].maxTimestamp]]
    ELSE syncTable

\* Mutant of FinalizedSyncs: the UPDATE selects by query_id, not by sync_id.
FinalizedSyncsOfQuery(r) ==
    [sid \in SyncIDs |->
        IF syncTable[sid].existing /\ syncTable[sid].query_id = sync[r].queryID
        THEN [syncTable[sid] EXCEPT !.completed = fin[r].completed,
                                    !.insertions = fin[r].totalInserted,
                                    !.max_timestamp = fin[r].maxTimestamp]
        ELSE syncTable[sid]]

\* Table FederationSync after lines 357-365: UPDATE FederationSync SET
\* completed = $1, insertions = $2, max_timestamp = $3 WHERE sync_id = $4
FinalizedSyncs(r) ==
    [syncTable EXCEPT ![sync[r].syncID] =
        [@ EXCEPT !.completed = fin[r].completed,
                  !.insertions = fin[r].totalInserted,
                  !.max_timestamp = fin[r].maxTimestamp]]

\* Lines 342-371 and the deferred finishTx of line 340: both UPDATEs succeed,
\* commit = true and tx.Commit succeeds.
FinalizeCommit(r) ==
    /\ fpc[r] = "finalizing"
    /\ ~QueryConflict(r)
    /\ queryTable' = FinalizedQueries(r)
    /\ queryVer' = IF WritesQuery(r)
                   THEN [queryVer EXCEPT ![sync[r].queryID] = @ + 1]
                   ELSE queryVer
    /\ syncTable' = FinalizedSyncs(r)
    /\ finErr' = [finErr EXCEPT ![r] = Nil]
    /\ fin' = [fin EXCEPT ![r] = NoCall]
    /\ fpc' = [fpc EXCEPT ![r] = "started"]
    /\ UNCHANGED <<now, lockVars, toolVars, sync, finalized, apc, addQ, addErr, added>>

\* Lines 352-354: the UPDATE of FederationQuery fails because the row was
\* written by a transaction that committed after the snapshot; finishTx rolls
\* back.
FinalizeUpdateFails(r) ==
    /\ fpc[r] = "finalizing"
    /\ QueryConflict(r)
    /\ finErr' = [finErr EXCEPT ![r] = ErrStatement]
    /\ fin' = [fin EXCEPT ![r] = NoCall]
    /\ fpc' = [fpc EXCEPT ![r] = "started"]
    /\ UNCHANGED <<now, lockVars, toolVars, queryTable, queryVer, syncTable, sync,
                   finalized, apc, addQ, addErr, added>>

ErrSyncStatement == "updating federation sync"

\* Mutant of RolledBackQueries: the UPDATE of FederationQuery runs on the
\* connection, outside the transaction, and stays when finalize fails later.
AutocommittedQueries(r) == FinalizedQueries(r)

\* Table FederationQuery after a finalize call that returns an error once the
\* UPDATE of lines 345-351 was issued: the UPDATE ran on tx (line 345), commit
\* is still false (lines 335, 370) and the transaction is rolled back.
RolledBackQueries(r) == queryTable

\* Lines 357-368: the UPDATE of FederationSync fails (the connection is lost,
\* ctx is done); finalize returns the wrapped error, commit is false and
\* finishTx rolls back.  The caller still has totalInserted.
FinalizeSyncUpdateFails(r) ==
    /\ fpc[r] = "finalizing"
    /\ ~QueryConflict(r)
    /\ queryTable' = RolledBackQueries(r)
    /\ finErr' = [finErr EXCEPT ![r] = ErrSyncStatement]
    /\ fin' = [fin EXCEPT ![r] =
                  [NoCall EXCEPT !.totalInserted = fin[r].totalInserted]]
    /\ fpc' = [fpc EXCEPT ![r] = "started"]
    /\ UNCHANGED <<now, lockVars, toolVars, queryVer, syncTable, sync,
                   finalized, apc, addQ, addErr, added>>

\* Line 340, both UPDATEs succeed and tx.Commit fails: nothing is written.
FinalizeCommitFails(r) ==
    /\ fpc[r] = "finalizing"
    /\ ~QueryConflict(r)
    /\ finErr' = [finErr EXCEPT ![r] = ErrCommit]
    /\ fin' = [fin EXCEPT ![r] = NoCall]
    /\ fpc' = [fpc EXCEPT ![r] = "started"]
    /\ UNCHANGED <<now, lockVars, toolVars, queryTable, queryVer, syncTable, sync,
                   finalized, apc, addQ, addErr, added>>

\* ------------------------------------------------------ AddFederationQuery
\* Lines 231-251: AddFederationQuery(ctx, q) takes a connection, begins the
\* transaction and reads the existing row through getFederationQuery.
AddSelect(q) ==
    /\ apc = "idle"
    /\ added < MaxAdds
    /\ added' = added + 1
    /\ addQ' = [q |-> QueryRow(q), id |-> q.QueryID,
                existing |-> queryTable[q.QueryID].existing,
                ver |-> queryVer[q.QueryID]]
    /\ apc' = "selected"
    /\ UNCHANGED <<now, lockVars, toolVars, queryTable, queryVer, syncTable, fpc, sync,
                   fin, finErr, finalized, addErr>>

\* The row was written by a transaction that committed after the SELECT.
AddConflict == queryVer[addQ.id] # addQ.ver

\* Mutant of AddedQueries: an upsert that keeps the cursor of the row it
\* replaces.
MergedQueries ==
    [queryTable EXCEPT ![addQ.id] =
        IF addQ.existing
        THEN [addQ.q EXCEPT !.last_timestamp = queryTable[addQ.id].last_timestamp]
        ELSE addQ.q]

\* Table FederationQuery after lines 253-272: DELETE FROM FederationQuery
\* WHERE query_id = $1 when the row exists, then INSERT INTO FederationQuery
\* of all five columns of q.
AddedQueries == [queryTable EXCEPT ![addQ.id] = addQ.q]

\* Lines 253-275 and the deferred finishTx of line 242: the DELETE of the
\* existing row and the INSERT succeed, commit = true and tx.Commit succeeds.
AddCommit ==
    /\ apc = "selected"
    /\ ~AddConflict
    /\ queryTable' = AddedQueries
    /\ queryVer' = [queryVer EXCEPT ![addQ.id] = @ + 1]
    /\ addErr' = Nil
    /\ addQ' = NoAdd
    /\ apc' = "idle"
    /\ UNCHANGED <<now, lockVars, toolVars, syncTable, fpc, sync, fin, finErr,
                   finalized, added>>

\* Lines 259-261 and 270-272: the DELETE or the INSERT fails, as it must when
\* the row was written since the SELECT and as it may for any other reason
\* (the connection is lost, ctx is done); finishTx rolls back.
AddWriteFails ==
    /\ apc = "selected"
    /\ addErr' = ErrStatement
    /\ addQ' = NoAdd
    /\ apc' = "idle"
    /\ UNCHANGED <<now, lockVars, toolVars, queryTable, queryVer, syncTable, fpc, sync,
                   fin, finErr, finalized, added>>

\* Line 242, the statements succeed and tx.Commit fails: the old row stays.
AddCommitFails ==
    /\ apc = "selected"
    /\ ~AddConflict
    /\ addErr' = ErrCommit
    /\ addQ' = NoAdd
    /\ apc' = "idle"
    /\ UNCHANGED <<now, lockVars, toolVars, queryTable, queryVer, syncTable, fpc, sync,
                   fin, finErr, finalized, added>>

\* ------------------------------------------------------ GetFederationQuery
ErrNotFound == "ErrNotFound"

\* No GetFederationQuery call has returned yet.
NoResult == [id |-> NoID, q |-> NoQuery, err |-> Nil, during |-> FALSE]

\* Mutant of ReadCommitted: the reader sees the DELETE of an open
\* AddFederationQuery transaction before its INSERT and its commit.
ReadUncommitted(id) ==
    IF apc = "selected" /\ addQ.id = id /\ addQ.existing
    THEN NoQuery
    ELSE queryTable[id]

\* Lines 206 and 210-216: conn.QueryRow runs the SELECT on its own, outside
\* any transaction; it reads the row as the last commit left it.
ReadCommitted(id) == queryTable[id]

\* Lines 200-227: GetFederationQuery(ctx, queryID) returns the row scanned
\* into q, or ErrNotFound on pgx.ErrNoRows.  during records whether an
\* AddFederationQuery of an existing row with that id was open at that time.
GetFederationQuery(id) ==
    /\ got' = [id |-> id,
               q |-> ReadCommitted(id),
               err |-> IF ReadCommitted(id).existing THEN Nil ELSE ErrNotFound,
               during |-> apc = "selected" /\ addQ.id = id /\ addQ.existing]
    /\ UNCHANGED <<now, lockVars, fedVars, cliVars, exportVars, verifyVars,
                   batchVars>>

\* ---------------------------------------------------- federation-query tool
\* A Go string is the sequence of its characters.
Lower ==
    {"a", "b", "c", "d", "e", "f", "g", "h", "i", "j", "k", "l", "m", "n", "o",
     "p", "q", "r", "s", "t", "u", "v", "w", "x", "y", "z"}

Digits == <<"0", "1", "2", "3", "4", "5", "6", "7", "8", "9">>

Digit == {Digits[i] : i \in 1 .. 10}

DigitValue(c) == (CHOOSE i \in 1 .. 10 : Digits[i] = c) - 1

\* A piece of a regular expression: a character class, taken once or, with
\* star, any number of times.
Once(class) == [class |-> class, star |-> FALSE]

Star(class) == [class |-> class, star |-> TRUE]

\* regexp.MatchString for a pattern \A p1 p2 ... pn \z of such pieces: the
\* pieces from the k-th on match s from position i to its end.
RECURSIVE Match(_, _, _, _)
Match(pat, s, i, k) ==
    IF k > Len(pat) THEN i > Len(s)
    ELSE IF pat[k].star
         THEN \/ Match(pat, s, i, k + 1)
              \/ /\ i <= Len(s)
                 /\ s[i] \in pat[k].class
                 /\ Match(pat, s, i + 1, k)
         ELSE /\ i <= Len(s)
              /\ s[i] \in pat[k].class
              /\ Match(pat, s, i + 1, k + 1)

\* Mutant of validQueryIDStr: \A[a-z0-9][a-z0-9-_]*[a-z0-9]\z
looseQueryIDStr ==
    <<Once(Lower \cup Digit), Star(Lower \cup Digit \cup {"-", "_"}),
      Once(Lower \cup Digit)>>

\* Line 31: \A[a-z][a-z0-9-_]*[a-z0-9]\z
validQueryIDStr ==
    <<Once(Lower), Star(Lower \cup Digit \cup {"-", "_"}), Once(Lower \cup Digit)>>

\* Line 32 and line 51: validQueryIDRegexp.MatchString(*queryID)
validQueryIDRegexp(s) == Match(validQueryIDStr, s, 1, 1)

\* Line 34: \A[a-z0-9.-]+(:\d+)?\z, as its two alternatives, without and
\* with the port.
validServerAddrStr ==
    {<<Once(Lower \cup Digit \cup {".", "-"}),
       Star(Lower \cup Digit \cup {".", "-"})>>,
     <<Once(Lower \cup Digit \cup {".", "-"}),
       Star(Lower \cup Digit \cup {".", "-"}),
       Once({":"}), Once(Digit), Star(Digit)>>}

\* Line 35 and line 57: validServerAddrRegexp.MatchString(*serverAddr)
validServerAddrRegexp(s) == \E pat \in validServerAddrStr : Match(pat, s, 1, 1)

\* The number written by the digits s[i .. j]; -1 if one is not a digit.
RECURSIVE Number(_, _, _)
Number(s, i, j) ==
    IF j < i THEN 0
    ELSE IF s[j] \notin Digit \/ Number(s, i, j - 1) < 0 THEN -1
         ELSE 10 * Number(s, i, j - 1) + DigitValue(s[j])

Leap(y) == y % 4 = 0 /\ (y % 100 # 0 \/ y % 400 = 0)

DaysIn(y, m) ==
    IF m = 2 THEN (IF Leap(y) THEN 29 ELSE 28)
    ELSE IF m \in {4, 6, 9, 11} THEN 30 ELSE 31

RECURSIVE DaysBeforeMonth(_, _)
DaysBeforeMonth(y, m) ==
    IF m = 1 THEN 0 ELSE DaysBeforeMonth(y, m - 1) + DaysIn(y, m - 1)

DaysBeforeYear(y) ==
    365 * (y - 1) + ((y - 1) \div 4) - ((y - 1) \div 100) + ((y - 1) \div 400)

\* A time.Time is counted in whole minutes since the zero Time,
\* 0001-01-01T00:00:00Z; offset is in minutes too.
Date(y, m, d, hh, mm, offset) ==
    ((DaysBeforeYear(y) + DaysBeforeMonth(y, m) + d - 1) * 24 + hh) * 60 + mm
        - offset

\* time.Parse(time.RFC3339, s), line 71, for the texts without fractional
\* seconds: 2006-01-02T15:04:05 followed by Z or by an offset +07:00.
TimeError == [err |-> TRUE, t |-> 0]

ParseRFC3339(s) ==
    IF Len(s) \notin {20, 25} THEN TimeError
    ELSE
    LET y == Number(s, 1, 4)
        m == Number(s, 6, 7)
        d == Number(s, 9, 10)
        hh == Number(s, 12, 13)
        mm == Number(s, 15, 16)
        ss == Number(s, 18, 19)
        zh == IF Len(s) = 25 THEN Number(s, 21, 22) ELSE 0
        zm == IF Len(s) = 25 THEN Number(s, 24, 25) ELSE 0
        sign == IF Len(s) = 25 /\ s[20] = "-" THEN -1 ELSE 1
    IN  IF /\ s[5] = "-" /\ s[8] = "-" /\ s[11] = "T"
           /\ s[14] = ":" /\ s[17] = ":"
           /\ IF Len(s) = 20 THEN s[20] = "Z"
              ELSE s[20] \in {"+", "-"} /\ s[23] = ":"
           /\ y >= 0 /\ m \in 1 .. 12 /\ d >= 1 /\ d <= DaysIn(y, m)
           /\ hh \in 0 .. 23 /\ mm \in 0 .. 59 /\ ss \in 0 .. 59
           /\ zh \in 0 .. 23 /\ zm \in 0 .. 59
        THEN [err |-> FALSE,
              t |-> Date(y, m, d, hh, mm, sign * (zh * 60 + zm))]
        ELSE TimeError

\* The values of the flags the operator types.
IDChars == {"q", "1", "-", "_", "Q"}

QueryIDFlags == UNION {[1 .. n -> IDChars] : n \in 0 .. MaxLen}

ServerAddrFlags ==
    {<<>>, <<"p">>,
     <<"p", ":", "4">>,
     <<"p", ":">>,
     <<":", "4">>,
     <<"P", ":", "4">>,
     <<"p", ":", "4", ":", "4">>,
     <<"p", ".", "p", "-", "4", ":", "4", "4">>}

LastTimestampFlags ==
    {<<>>,
     <<"2", "0", "2", "0", "-", "0", "5", "-", "0", "1", "T", "0", "0", ":", "0", "0", ":", "0", "0", "Z">>,
     <<"2", "0", "2", "0", "-", "0", "5", "-", "0", "1", "T", "0", "2", ":", "0", "0", ":", "0", "0", "+", "0", "2", ":", "0", "0">>,
     <<"2", "0", "2", "0", "-", "0", "5", "-", "0", "1">>,
     <<"2", "0", "2", "0", "-", "0", "2", "-", "3", "0", "T", "0", "0", ":", "0", "0", ":", "0", "0", "Z">>}

Flags ==
    {[queryID |-> id, serverAddr |-> addr, lastTimestamp |-> ts,
      regions |-> <<>>, excludeRegions |-> <<>>] :
        id \in QueryIDFlags, addr \in ServerAddrFlags,
        ts \in LastTimestampFlags}

\* Mutant of LastTimeError: the error of time.Parse is dropped.
LastTimeIgnored(f) == FALSE

\* Lines 69-74: --last-timestamp is given and is not RFC3339.
LastTimeError(f) ==
    f.lastTimestamp # <<>> /\ ParseRFC3339(f.lastTimestamp).err

\* lastTime, lines 68-75: the zero Time unless --last-timestamp is given.
LastTime(f) ==
    IF f.lastTimestamp # <<>> THEN ParseRFC3339(f.lastTimestamp).t ELSE 0

\* query, lines 77-83
Query(f) ==
    [QueryID |-> f.queryID, ServerAddr |-> f.serverAddr,
     IncludeRegions |-> f.regions, ExcludeRegions |-> f.excludeRegions,
     LastTimestamp |-> LastTime(f)]

\* The message of the log.Fatalf that ends main before line 85, "" if none
\* does; connected tells whether database.NewFromEnv succeeded.
Fatal(f, connected) ==
    IF f.queryID = <<>> THEN "query-id is required"
    ELSE IF ~validQueryIDRegexp(f.queryID) THEN "query-id must match"
    ELSE IF f.serverAddr = <<>> THEN "server-addr is required"
    ELSE IF ~validServerAddrRegexp(f.serverAddr) THEN "server-addr must match"
    ELSE IF ~connected THEN "unable to connect to database"
    ELSE IF LastTimeError(f) THEN "failed to parse --last-timestamp"
    ELSE ""

\* Lines 42-83: main parses the flags, validates them, connects to the
\* database and parses the timestamp; log.Fatalf ends the process.
FederationQueryMain ==
    /\ cpc = "start"
    /\ \E connected \in BOOLEAN :
          /\ exit' = Fatal(flags, connected)
          /\ cpc' = IF Fatal(flags, connected) = "" THEN "adding" ELSE "fatal"
    /\ UNCHANGED <<now, lockVars, fedVars, got, flags, exportVars, verifyVars,
                   batchVars>>

\* Line 85: main calls db.AddFederationQuery(ctx, query).
FederationQueryAdd ==
    /\ cpc = "adding"
    /\ added = 0
    /\ AddSelect(Query(flags))

\* Lines 85-89: AddFederationQuery has returned; main ends with log.Fatalf
\* on an error and with the success message otherwise.
FederationQueryReturn ==
    /\ cpc = "adding"
    /\ added = 1
    /\ apc = "idle"
    /\ exit' = IF addErr # Nil THEN "adding new query" ELSE ""
    /\ cpc' = IF addErr # Nil THEN "fatal" ELSE "done"
    /\ UNCHANGED <<now, lockVars, fedVars, got, flags, exportVars, verifyVars,
                   batchVars>>

\* ------------------------------------------------------------ export server
\* A time.Duration is counted in milliseconds.
Second == 1000

Minute == 60 * Second

\* Lines 35 and 39
defaultTimeout == 5 * Minute

defaultMaxRecords == 30000

\* The units of time.ParseDuration that last a whole number of milliseconds.
UnitNames == {<<"m", "s">>, <<"s">>, <<"m">>, <<"h">>}

Unit(u) ==
    IF u = <<"m", "s">> THEN 1
    ELSE IF u = <<"s">> THEN Second
    ELSE IF u = <<"m">> THEN Minute
    ELSE 60 * Minute

\* The last position of the run of digits of s that starts at i (i - 1 when
\* s[i] is no digit), and the last position of the run of other characters.
RECURSIVE DigitsEnd(_, _)
DigitsEnd(s, i) ==
    IF i <= Len(s) /\ s[i] \in Digit THEN DigitsEnd(s, i + 1) ELSE i - 1

RECURSIVE UnitEnd(_, _)
UnitEnd(s, i) ==
    IF i <= Len(s) /\ s[i] \notin Digit THEN UnitEnd(s, i + 1) ELSE i - 1

DurationError == [err |-> TRUE, d |-> 0]

\* The loop of time.ParseDuration over the groups of digits and unit from
\* position i on, d being the sum of the groups before (fractions left out).
RECURSIVE Groups(_, _, _)
Groups(s, i, d) ==
    IF i > Len(s) THEN [err |-> FALSE, d |-> d]
    ELSE LET j == DigitsEnd(s, i)
             k == UnitEnd(s, j + 1)
         IN  IF j < i \/ k = j \/ SubSeq(s, j + 1, k) \notin UnitNames
             THEN DurationError
             ELSE Groups(s, k + 1, d + Number(s, i, j) * Unit(SubSeq(s, j + 1, k)))

\* time.ParseDuration(s), line 56: an optional sign, then "0" or one group or
\* more; 0 and an error otherwise.
ParseDuration(s) ==
    LET signed == s # <<>> /\ s[1] \in {"-", "+"}
        rest == IF signed THEN Tail(s) ELSE s
        g == Groups(rest, 1, 0)
    IN  IF rest = <<>> THEN DurationError
        ELSE IF rest = <<"0">> THEN [err |-> FALSE, d |-> 0]
        ELSE IF g.err THEN DurationError
        ELSE [err |-> FALSE, d |-> IF signed /\ s[1] = "-" THEN -g.d ELSE g.d]

\* strconv.Atoi(s), line 65: an optional sign and one digit or more; 0 and
\* an error otherwise.
Atoi(s) ==
    LET signed == s # <<>> /\ s[1] \in {"-", "+"}
        rest == IF signed THEN Tail(s) ELSE s
    IN  IF rest = <<>> \/ Number(rest, 1, Len(rest)) < 0
        THEN [err |-> TRUE, n |-> 0]
        ELSE [err |-> FALSE,
              n |-> IF signed /\ s[1] = "-"
                    THEN -Number(rest, 1, Len(rest))
                    ELSE Number(rest, 1, Len(rest))]

\* Mutant of CreateBatchesTimeout: line 59 is missing, so that a failed
\* time.ParseDuration leaves its zero result in createBatchesTimeout.
TimeoutWithoutFallback(timeoutStr) ==
    IF timeoutStr # <<>> THEN ParseDuration(timeoutStr).d ELSE defaultTimeout

\* createBatchesTimeout, lines 53-61
CreateBatchesTimeout(timeoutStr) ==
    IF timeoutStr # <<>>
    THEN IF ParseDuration(timeoutStr).err
         THEN defaultTimeout
         ELSE ParseDuration(timeoutStr).d
    ELSE defaultTimeout

\* bsc.MaxRecords, lines 65-69
MaxRecords(maxStr) ==
    IF Atoi(maxStr).err THEN defaultMaxRecords ELSE Atoi(maxStr).n

\* The values of the environment variables.
TimeoutChars == {"0", "5", "m", "-"}

MaxRecordsChars == {"3", "-", "x"}

Buckets == {<<"b">>}

Environments ==
    [CREATE_BATCHES_TIMEOUT : UNION {[1 .. n -> TimeoutChars] : n \in 0 .. MaxLen},
     EXPORT_FILE_MAX_RECORDS :
         UNION {[1 .. n -> MaxRecordsChars] : n \in 0 .. MaxLen},
     TMP_EXPORT_BUCKET : Buckets,
     EXPORT_BUCKET : Buckets]

\* Lines 42-82: main connects to the database, which ends the process with
\* logger.Fatalf when it fails, builds bsc from the environment and serves.
ExportMain ==
    /\ epc = "start"
    /\ \E connected \in BOOLEAN :
          IF connected
          THEN /\ bsc' = [CreateTimeout |->
                              CreateBatchesTimeout(env.CREATE_BATCHES_TIMEOUT),
                          MaxRecords |-> MaxRecords(env.EXPORT_FILE_MAX_RECORDS),
                          TmpBucket |-> env.TMP_EXPORT_BUCKET,
                          Bucket |-> env.EXPORT_BUCKET]
               /\ epc' = "serving"
          ELSE /\ bsc' = bsc
               /\ epc' = "fatal"
    /\ UNCHANGED <<now, lockVars, fedVars, got, cliVars, env, verifyVars,
                   batchVars>>

\* ------------------------------------------------------- create-batches
\* The controller is served by the export server with bsc (lines 73-78);
\* it partitions the eligible records of each region and time window into
\* ordered batches of at most bsc.MaxRecords records and persists one work
\* item for each, with its number and the count of the batches of its group.
Min(a, b) == IF a <= b THEN a ELSE b

\* Mutant of Partition: only full batches, the remainder is left out.
RECURSIVE FullBatches(_, _)
FullBatches(n, m) ==
    IF n < m THEN <<>> ELSE <<m>> \o FullBatches(n - m, m)

\* The sizes of the batches of n records capped at m, in order.
RECURSIVE Partition(_, _)
Partition(n, m) ==
    IF n = 0 THEN <<>> ELSE <<Min(n, m)>> \o Partition(n - Min(n, m), m)

WorkItems(n, m) ==
    [i \in 1 .. Len(Partition(n, m)) |->
        [BatchNum |-> i,
         BatchSize |-> Len(Partition(n, m)),
         Records |-> Partition(n, m)[i]]]

\* One run of the controller over the records of one region and window, by
\* a server that serves with a positive cap; it returns the count of the
\* batches it created.
CreateBatches ==
    /\ epc = "serving"
    /\ bsc.MaxRecords > 0
    /\ batches = Null
    /\ workItems' = WorkItems(records, bsc.MaxRecords)
    /\ batches' = Len(workItems')
    /\ UNCHANGED <<now, lockVars, fedVars, got, cliVars, exportVars,
                   verifyVars, records>>

\* The record counts of a group and the caps a server is configured with:
\* one digit, or the default of an unset variable.
RecordCounts == (0 .. MaxRecordCount) \cup {75000}

Caps == {<<>>} \cup {<<c>> : c \in {d \in Digit : DigitValue(d) \in 1 .. MaxCap}}

\* ------------------------------------------------------------ VerifyRegions
\* A nil *model.APIConfig.
NilConfig == [nil |-> TRUE, AppPackageName |-> "", AllowAllRegions |-> FALSE,
              AllowedRegions |-> {}]

\* The error results of VerifyRegions: the text, and the two values its format
\* verbs take.  NotVerified stands for a call that has not returned.
VerifyError(msg, app, region) == [msg |-> msg, app |-> app, region |-> region]

NoError == VerifyError("", "", "")

NotVerified == VerifyError("(not called)", "", "")

appPkgName == "com.example.pkg"

Packages == {appPkgName, "org.example.other"}

Regions == {"US", "CA", "MX"}

\* model.APIConfig, as far as VerifyRegions reads it.  AllowedRegions is used
\* only when AllowAllRegions is false.
APIConfig(app, all, allowed) ==
    [nil |-> FALSE, AppPackageName |-> app, AllowAllRegions |-> all,
     AllowedRegions |-> allowed]

APIConfigs ==
    {NilConfig}
        \cup {APIConfig(app, TRUE, {}) : app \in Packages}
        \cup {APIConfig(app, FALSE, allowed) :
                  app \in Packages, allowed \in SUBSET Regions}

\* model.Publish.Regions: the requested regions, in the order of the request.
RegionLists == UNION {[1 .. n -> Regions] : n \in 0 .. MaxRegions}

ErrNoRegions == "no allowed regions configured"

ErrUnauthorized == "application '%v' tried to write unauthorized region: '%v'"

\* The first requested region from position i on that cfg does not allow, as
\* an error; no error when there is none.
RECURSIVE FirstUnauthorized(_, _, _)
FirstUnauthorized(c, regions, i) ==
    IF i > Len(regions) THEN NoError
    ELSE IF regions[i] \notin c.AllowedRegions
         THEN VerifyError(ErrUnauthorized, c.AppPackageName, regions[i])
         ELSE FirstUnauthorized(c, regions, i + 1)

\* Mutant of VerifyRegions: only the first requested region is checked.
VerifyFirstRegion(c, regions) ==
    IF c.nil THEN VerifyError(ErrNoRegions, "", "")
    ELSE IF c.AllowAllRegions \/ regions = <<>> THEN NoError
    ELSE FirstUnauthorized(c, <<regions[1]>>, 1)

\* VerifyRegions(cfg, data): no configuration allows nothing, AllowAllRegions
\* allows everything, and otherwise every requested region has to be in
\* AllowedRegions.
VerifyRegions(c, regions) ==
    IF c.nil THEN VerifyError(ErrNoRegions, "", "")
    ELSE IF c.AllowAllRegions THEN NoError
    ELSE FirstUnauthorized(c, regions, 1)

\* The call err := VerifyRegions(c.Cfg, c.Data), verify_test.go line 73.
VerifyRegionsCall ==
    /\ verifyErr = NotVerified
    /\ verifyErr' = VerifyRegions(cfg, data)
    /\ UNCHANGED <<now, lockVars, fedVars, got, cliVars, exportVars, cfg, data,
                   batchVars>>

\* The configurations and the cases of TestVerifyRegions, lines 29-70: the
\* arguments of each call and the error text the test wants.
allRegions == APIConfig(appPkgName, TRUE, {})

usCaRegions == APIConfig(appPkgName, FALSE, {"US", "CA"})

cases ==
    <<[Data |-> <<"US">>, Msg |-> VerifyError(ErrNoRegions, "", ""),
       Cfg |-> NilConfig],
      [Data |-> <<"US">>, Msg |-> NoError, Cfg |-> allRegions],
      [Data |-> <<"US">>, Msg |-> NoError, Cfg |-> usCaRegions],
      [Data |-> <<"US", "CA">>, Msg |-> NoError, Cfg |-> usCaRegions],
      [Data |-> <<"MX">>,
       Msg |-> VerifyError(ErrUnauthorized, appPkgName, "MX"),
       Cfg |-> usCaRegions]>>

\* ========================================================== specifications
\* The lock alone.
LockNext ==
    \/ Tick
    \/ \E p \in Callers, id \in LockIDs, d \in TTLs : LockSelect(p, id, d)
    \/ \E p \in Callers : LockAlreadyLocked(p)
    \/ \E p \in Callers : LockWriteFails(p)
    \/ \E p \in Callers : LockCommit(p)
    \/ \E p \in Callers : LockCommitFails(p)
    \/ \E p \in Callers : UnlockBegin(p)
    \/ \E p \in Callers : UnlockCommit(p)
    \/ \E p \in Callers : UnlockDeleteFails(p)
    \/ \E p \in Callers : UnlockCommitFails(p)

\* No federation query is configured while the lock runs.
FedEmpty ==
    /\ queryTable = [id \in QueryIDs |-> NoQuery]
    /\ queryVer = [id \in QueryIDs |-> 0]
    /\ syncTable = [sid \in SyncIDs |-> NoSync]
    /\ fpc = [r \in Runs |-> "idle"]
    /\ sync = [r \in Runs |-> NoClosure]
    /\ fin = [r \in Runs |-> NoCall]
    /\ finErr = [r \in Runs |-> Nil]
    /\ finalized = [r \in Runs |-> 0]
    /\ apc = "idle"
    /\ addQ = NoAdd
    /\ addErr = Nil
    /\ added = 0

\* The reader, the federation-query tool, the export server, the region check
\* and the controller are not running.
NoFlags ==
    [queryID |-> <<>>, serverAddr |-> <<>>, lastTimestamp |-> <<>>,
     regions |-> <<>>, excludeRegions |-> <<>>]

NoEnv ==
    [CREATE_BATCHES_TIMEOUT |-> <<>>, EXPORT_FILE_MAX_RECORDS |-> <<>>,
     TMP_EXPORT_BUCKET |-> <<>>, EXPORT_BUCKET |-> <<>>]

\* api.BatchServerConfig{}, line 52
NoConfig ==
    [CreateTimeout |-> 0, MaxRecords |-> 0, TmpBucket |-> <<>>, Bucket |-> <<>>]

GetIdle == got = NoResult

CliOff == flags = NoFlags /\ cpc = "off" /\ exit = ""

ExportOff == env = NoEnv /\ epc = "off" /\ bsc = NoConfig

VerifyOff == cfg = NilConfig /\ data = <<>> /\ verifyErr = NotVerified

BatchOff == records = 0 /\ workItems = <<>> /\ batches = Null

ToolsOff == GetIdle /\ CliOff /\ ExportOff /\ VerifyOff /\ BatchOff

LockSpecInit == LockInit /\ FedEmpty /\ ToolsOff

LockSpec == LockSpecInit /\ [][LockNext]_vars

\* The sync runs alone: StartFederationSync and the finalize functions.  Only
\* differences of clock readings are used, so the clock starts with the first
\* run.
FedNext ==
    \/ (\E r \in Runs : fpc[r] # "idle") /\ Tick
    \/ \E r \in Runs, qid \in QueryIDs, st \in StartTimes :
          StartFederationSync(r, qid, st)
    \/ \E r \in Runs, t \in Timestamps, n \in Inserted : FinalizeBegin(r, t, n)
    \/ \E r \in Runs : FinalizeCommit(r)
    \/ \E r \in Runs : FinalizeUpdateFails(r)
    \/ \E r \in Runs : FinalizeCommitFails(r)

\* No caller has called Lock while the sync runs are observed.
FedSpecInit == LockInit /\ FedInit /\ ToolsOff

FedSpec == FedSpecInit /\ [][FedNext]_vars

\* The sync runs with a clock that stands still, and with finalize calls of
\* which any statement may fail.
FinalizeNext ==
    \/ \E r \in Runs, qid \in QueryIDs, st \in StartTimes :
          StartFederationSync(r, qid, st)
    \/ \E r \in Runs, t \in Timestamps, n \in Inserted : FinalizeBegin(r, t, n)
    \/ \E r \in Runs : FinalizeCommit(r)
    \/ \E r \in Runs : FinalizeUpdateFails(r)
    \/ \E r \in Runs : FinalizeSyncUpdateFails(r)
    \/ \E r \in Runs : FinalizeCommitFails(r)

FinalizeSpec == FedSpecInit /\ [][FinalizeNext]_vars

\* The sync runs under a wall clock that runs and may be set back.  The
\* callers pass a started time that is later than the clock can be set back,
\* so that every completed time is a time of the model.
WallStartTimes == {MaxTime + 1}

\* The arguments of their finalize calls: nothing was inserted, or one key up
\* to timestamp 1.
WallFinalizeArgs == {<<0, 0>>, <<1, 1>>}

WallClockNext ==
    \/ (\E r \in Runs : fpc[r] # "idle") /\ Tick
    \/ (\E r \in Runs : fpc[r] # "idle") /\ ClockSetBack
    \/ \E r \in Runs, qid \in QueryIDs, st \in WallStartTimes :
          StartFederationSync(r, qid, st)
    \/ \E r \in Runs, a \in WallFinalizeArgs : FinalizeBegin(r, a[1], a[2])
    \/ \E r \in Runs : FinalizeCommit(r)
    \/ \E r \in Runs : FinalizeCommitFails(r)

WallClockSpec == FedSpecInit /\ [][WallClockNext]_vars

\* The operator replaces queries with AddFederationQuery while a reader calls
\* GetFederationQuery.  "q1" is configured and has been pulled up to some
\* timestamp; "q2" is not configured yet.
QueryInit ==
    /\ \E t \in Timestamps :
          queryTable =
              [id \in QueryIDs |->
                  IF id = "q1"
                  THEN QueryRow([QueryID |-> id, ServerAddr |-> "peer1:443",
                                 IncludeRegions |-> <<"US">>,
                                 ExcludeRegions |-> <<>>,
                                 LastTimestamp |-> t])
                  ELSE NoQuery]
    /\ queryVer = [id \in QueryIDs |-> 0]
    /\ syncTable = [sid \in SyncIDs |-> NoSync]
    /\ fpc = [r \in Runs |-> "idle"]
    /\ sync = [r \in Runs |-> NoClosure]
    /\ fin = [r \in Runs |-> NoCall]
    /\ finErr = [r \in Runs |-> Nil]
    /\ finalized = [r \in Runs |-> 0]
    /\ apc = "idle"
    /\ addQ = NoAdd
    /\ addErr = Nil
    /\ added = 0

QueryNext ==
    \/ \E q \in FederationQueries : AddSelect(q)
    \/ AddCommit
    \/ AddWriteFails
    \/ AddCommitFails
    \/ \E id \in QueryIDs : GetFederationQuery(id)

QuerySpecInit ==
    LockInit /\ QueryInit /\ GetIdle /\ CliOff /\ ExportOff /\ VerifyOff /\ BatchOff

QuerySpec == QuerySpecInit /\ [][QueryNext]_vars

\* The federation-query tool, run once with any command line.  Of table
\* FederationQuery the tool can touch only the row with the id it was given,
\* which is there already or not.
CliInit ==
    /\ flags \in Flags
    /\ cpc = "start"
    /\ exit = ""
    /\ queryTable \in
          {[id \in {flags.queryID} |-> row] :
              row \in {NoQuery,
                       QueryRow([QueryID |-> flags.queryID,
                                 ServerAddr |-> <<"p">>,
                                 IncludeRegions |-> <<>>,
                                 ExcludeRegions |-> <<>>,
                                 LastTimestamp |-> 0])}}
    /\ queryVer = [id \in {flags.queryID} |-> 0]
    /\ syncTable = [sid \in SyncIDs |-> NoSync]
    /\ fpc = [r \in Runs |-> "idle"]
    /\ sync = [r \in Runs |-> NoClosure]
    /\ fin = [r \in Runs |-> NoCall]
    /\ finErr = [r \in Runs |-> Nil]
    /\ finalized = [r \in Runs |-> 0]
    /\ apc = "idle"
    /\ addQ = NoAdd
    /\ addErr = Nil
    /\ added = 0

CliSpecInit ==
    LockInit /\ CliInit /\ GetIdle /\ ExportOff /\ VerifyOff /\ BatchOff

CliNext ==
    \/ FederationQueryMain
    \/ FederationQueryAdd
    \/ AddCommit
    \/ AddWriteFails
    \/ AddCommitFails
    \/ FederationQueryReturn

CliSpec == CliSpecInit /\ [][CliNext]_vars

\* The export server, started once in any environment.
ExportSpecInit ==
    /\ LockInit /\ FedEmpty /\ GetIdle /\ CliOff /\ VerifyOff /\ BatchOff
    /\ env \in Environments
    /\ epc = "start"
    /\ bsc = NoConfig

ExportNext == ExportMain

ExportSpec == ExportSpecInit /\ [][ExportNext]_vars

\* The export server, started with any cap, and one run of its controller
\* over any count of records; the count of the scenario, of thousands of
\* records, with the default cap only.
BatchSpecInit ==
    /\ LockInit /\ FedEmpty /\ GetIdle /\ CliOff /\ VerifyOff
    /\ env \in [CREATE_BATCHES_TIMEOUT : {<<>>},
                EXPORT_FILE_MAX_RECORDS : Caps,
                TMP_EXPORT_BUCKET : Buckets,
                EXPORT_BUCKET : Buckets]
    /\ epc = "start"
    /\ bsc = NoConfig
    /\ records \in RecordCounts
    /\ records > MaxRecordCount => env.EXPORT_FILE_MAX_RECORDS = <<>>
    /\ workItems = <<>>
    /\ batches = Null

BatchNext == ExportMain \/ CreateBatches

BatchSpec == BatchSpecInit /\ [][BatchNext]_vars

\* The region check, called once with any configuration and any request.
RegionSpecInit ==
    /\ LockInit /\ FedEmpty /\ GetIdle /\ CliOff /\ ExportOff /\ BatchOff
    /\ cfg \in APIConfigs
    /\ data \in RegionLists
    /\ verifyErr = NotVerified

RegionNext == VerifyRegionsCall

RegionSpec == RegionSpecInit /\ [][RegionNext]_vars

\* ============================================================ the lock claims
\* Lock returned an unlock handle and no error.
Succeeded(p) == pc[p] \in {"returned", "unlocking"} /\ unlockFn[p] /\ err[p] = Nil

\* The Lock call of p has returned.
LockReturned(p) == pc[p] \in {"returned", "unlocking"}

\* A holder: its Lock call returned an unlock handle, it has not invoked the
\* handle, and its TTL has not elapsed.
Holder(p) == Succeeded(p) /\ invoked[p] = 0 /\ now <= expiry[p]

Holders(id) == {p \in Callers : lockID[p] = id /\ Holder(p)}

\* Two Lock calls ran concurrently against the same free lock row: both have
\* returned, and their SELECTs read the same version of the row of the same
\* lock id, which was absent or expired.
Concurrent(p, q) ==
    /\ p # q
    /\ LockReturned(p) /\ LockReturned(q)
    /\ lockID[p] = lockID[q]
    /\ seen[p].ver = seen[q].ver
    /\ seen[p].free /\ seen[q].free

\* C1 as stated: two concurrent Lock calls on a free lock never both succeed
\* and exactly one of them returns ErrAlreadyLocked (stated for the runs in
\* which no tx.Commit fails).
C1_Original ==
    \A p, q \in Callers :
        (Concurrent(p, q) /\ err[p] # ErrCommit /\ err[q] # ErrCommit) =>
            /\ ~(Succeeded(p) /\ Succeeded(q))
            /\ (err[p] = ErrAlreadyLocked) # (err[q] = ErrAlreadyLocked)

\* C1 as amended: two concurrent Lock calls on a free lock never both succeed;
\* at least one of them returns an error, and that error is the wrapped error
\* of its failed statement or commit, never ErrAlreadyLocked.
C1_MutualExclusion ==
    \A p, q \in Callers :
        Concurrent(p, q) =>
            /\ ~(Succeeded(p) /\ Succeeded(q))
            /\ err[p] # ErrAlreadyLocked /\ err[q] # ErrAlreadyLocked
            /\ err[p] \in {ErrStatement, ErrCommit}
               \/ err[q] \in {ErrStatement, ErrCommit}

\* Two concurrent calls have returned, one with the lock and the other with
\* the error of its failed statement.
C1_Witness ==
    \E p, q \in Callers :
        Concurrent(p, q) /\ Succeeded(p) /\ err[q] = ErrStatement

LockReturns(p) == pc[p] = "selected" /\ pc'[p] = "returned"

\* C3: a Lock call that finds the row of its lock id with an expiry strictly
\* in the past never returns ErrAlreadyLocked; when it returns no error it
\* returns an unlock handle and has set the row's expiry to expiry, which is
\* the time of the call plus ttl; and unless another transaction wrote the
\* row in between, nothing keeps it from doing so.
C3_Steal ==
    [][\A p \in Callers :
          /\ (pc[p] = "idle" /\ pc'[p] = "selected") =>
                expiry'[p] = now + ttl'[p]
          /\ (LockReturns(p) /\ l(p).existing /\ now > l(p).expires) =>
                /\ err'[p] # ErrAlreadyLocked
                /\ err'[p] = Nil =>
                      /\ unlockFn'[p]
                      /\ lockTable'[lockID[p]] = Row(expiry[p])
                      /\ lockTable[lockID[p]] = l(p)
                /\ (err'[p] = ErrStatement) = (lockVer[lockID[p]] # snap[p].ver)
          /\ (/\ pc[p] = "selected" /\ l(p).existing /\ now > l(p).expires
              /\ lockVer[lockID[p]] = snap[p].ver) => ENABLED LockCommit(p)
      ]_vars

\* A caller holds a lock it stole from a caller that never invoked its handle.
C3_Witness ==
    \E p, q \in Callers :
        /\ p # q /\ lockID[p] = lockID[q]
        /\ Holder(p) /\ lockTable[lockID[p]] = Row(expiry[p])
        /\ Succeeded(q) /\ invoked[q] = 0
        /\ ~misused

\* C4: a Lock call that finds the row of its lock id unexpired returns
\* ErrAlreadyLocked and no unlock handle, and leaves the Lock table as it is;
\* it can always return at once, whatever the other callers do.
C4_AlreadyLocked ==
    [][\A p \in Callers :
          /\ (LockReturns(p) /\ l(p).existing /\ now <= l(p).expires) =>
                /\ err'[p] = ErrAlreadyLocked
                /\ ~unlockFn'[p]
                /\ lockTable' = lockTable
                /\ lockVer' = lockVer
          /\ (pc[p] = "selected" /\ l(p).existing /\ now <= l(p).expires) =>
                ENABLED LockAlreadyLocked(p)
      ]_vars

\* A Lock call has returned ErrAlreadyLocked and the row is still there.
C4_Witness ==
    \E p \in Callers :
        /\ pc[p] = "returned" /\ err[p] = ErrAlreadyLocked
        /\ lockTable[lockID[p]].existing
        /\ now <= lockTable[lockID[p]].expires

\* C5: an unlock handle that returns no error has deleted the row with its
\* lock id that its DELETE found, whatever expiry that row had (so also a row
\* written by a later acquirer), and has changed no other row.
C5_Unlock ==
    [][\A p \in Callers :
          (pc[p] = "unlocking" /\ pc'[p] = "returned" /\ unlockErr'[p] = Nil) =>
              /\ snap[p].row.existing => lockTable'[lockID[p]] = NoRow
              /\ \A id \in LockIDs \ {lockID[p]} : lockTable'[id] = lockTable[id]
      ]_vars

\* A stale holder released after its TTL, its release reported success, and
\* two later acquirers hold the lock at the same instant.
C5_Witness ==
    \E a, b, c \in Callers :
        /\ a # b /\ a # c /\ b # c
        /\ lockID[a] = lockID[b] /\ lockID[b] = lockID[c]
        /\ Succeeded(a) /\ invoked[a] = 1 /\ pc[a] = "returned"
        /\ unlockErr[a] = Nil /\ now > expiry[a]
        /\ Holder(b) /\ Holder(c)

\* ====================================================== the federation claims
\* The step in which the finalize call of run r returns.
FinalizeReturns(r) == fpc[r] = "finalizing" /\ fpc'[r] = "started"

\* The step in which the finalize call of run r returns nil.
FinalizeSucceeds(r) == FinalizeReturns(r) /\ finErr'[r] = Nil

\* The resumption cursor of query id.
Cursor(id) == queryTable[id].last_timestamp

\* What a committed finalize call leaves in a history row.
Finalized(row, call) ==
    [row EXCEPT !.completed = call.completed,
                !.insertions = call.totalInserted,
                !.max_timestamp = call.maxTimestamp]

\* C6 as stated: over any sequence of StartFederationSync and finalize calls,
\* the stored cursor of a query never decreases.
C6_Original ==
    [][\A id \in QueryIDs :
          (queryTable[id].existing /\ queryTable'[id].existing) =>
              queryTable'[id].last_timestamp >= queryTable[id].last_timestamp
      ]_vars

\* C7: a finalize call with totalInserted = 0 leaves table FederationQuery,
\* and so the cursor of its query, as it is, whatever maxTimestamp is.
C7_NoInsertions ==
    [][\A r \in Runs :
          (FinalizeReturns(r) /\ fin[r].totalInserted = 0) =>
              /\ queryTable' = queryTable
              /\ queryVer' = queryVer
      ]_vars

\* A sync that inserted nothing is completed, and the cursor of its query is
\* not the max timestamp the sync observed.
C7_Witness ==
    \E sid \in SyncIDs :
        /\ syncTable[sid].existing
        /\ syncTable[sid].completed # Null
        /\ syncTable[sid].insertions = 0
        /\ Cursor(syncTable[sid].query_id) # syncTable[sid].max_timestamp

\* C8: a committed finalize call with totalInserted > 0 and maxTimestamp not
\* below the cursor leaves the cursor of its query equal to maxTimestamp, and
\* every other field of that row and every other row as they were.
C8_Advance ==
    [][\A r \in Runs :
          (/\ FinalizeSucceeds(r)
           /\ fin[r].totalInserted > 0
           /\ queryTable[sync[r].queryID].existing
           /\ fin[r].maxTimestamp >= Cursor(sync[r].queryID)) =>
              queryTable' =
                  [queryTable EXCEPT ![sync[r].queryID] =
                      [@ EXCEPT !.last_timestamp = fin[r].maxTimestamp]]
      ]_vars

\* A sync that inserted something is completed, and the cursor of its query
\* has moved up to the max timestamp the sync observed.
C8_Witness ==
    \E sid \in SyncIDs :
        /\ syncTable[sid].existing
        /\ syncTable[sid].completed # Null
        /\ syncTable[sid].insertions > 0
        /\ syncTable[sid].max_timestamp > 0
        /\ syncTable[sid].query_id = "q2"
        /\ Cursor("q2") = syncTable[sid].max_timestamp

\* C9: a finalize call that returns nil has set completed, insertions and
\* max_timestamp of the history row of its own sync, also when totalInserted
\* is 0, and has changed nothing else in table FederationSync.
C9_History ==
    [][\A r \in Runs :
          FinalizeSucceeds(r) =>
              /\ syncTable' =
                    [syncTable EXCEPT ![sync[r].syncID] = Finalized(@, fin[r])]
              /\ syncTable'[sync[r].syncID].completed # Null
      ]_vars

\* Of two syncs one is completed without insertions and the other is not
\* completed.
C9_Witness ==
    \E sid, other \in SyncIDs :
        /\ syncTable[sid].existing /\ syncTable[other].existing
        /\ syncTable[sid].completed # Null /\ syncTable[sid].insertions = 0
        /\ syncTable[other].completed = Null
        /\ syncTable[other].insertions = Null

\* C10 as stated: once a history row is completed, no step changes it or the
\* cursor of its query.
C10_Original ==
    [][\A sid \in SyncIDs :
          (syncTable[sid].existing /\ syncTable[sid].completed # Null) =>
              /\ syncTable'[sid] = syncTable[sid]
              /\ queryTable'[syncTable[sid].query_id].last_timestamp =
                    Cursor(syncTable[sid].query_id)
      ]_vars

\* C10 as amended: sync_id, query_id and started of a history row never
\* change, and its completed, insertions and max_timestamp are changed only by
\* a committed call of the finalize function that was returned with the row.
C10_OnlyItsFinalize ==
    [][\A sid \in SyncIDs :
          syncTable[sid].existing =>
              /\ syncTable'[sid].existing
              /\ syncTable'[sid].query_id = syncTable[sid].query_id
              /\ syncTable'[sid].started = syncTable[sid].started
              /\ syncTable'[sid] # syncTable[sid] =>
                    \E r \in Runs : sync[r].syncID = sid /\ FinalizeSucceeds(r)
      ]_vars

\* A history row is completed and its finalize function is running again,
\* while another sync of the same query is recorded.
C10_Witness ==
    \E r, o \in Runs :
        /\ r # o
        /\ fpc[r] = "finalizing" /\ finalized[r] = 2
        /\ syncTable[sync[r].syncID].completed # Null
        /\ fpc[o] = "started" /\ sync[o].queryID = sync[r].queryID

\* ========================================================= the query claims
\* The step in which the AddFederationQuery call returns.
AddReturns == apc = "selected" /\ apc' = "idle"

\* C11: an AddFederationQuery call that returns nil leaves the row with the
\* id of q present with server address, include regions, exclude regions and
\* last timestamp all as q has them, whether or not a row with that id was
\* there before, and leaves every other row as it was.
C11_Replace ==
    [][(AddReturns /\ addErr' = Nil) =>
          /\ queryTable'[addQ.id].existing
          /\ queryTable'[addQ.id].server_addr = addQ.q.server_addr
          /\ queryTable'[addQ.id].include_regions = addQ.q.include_regions
          /\ queryTable'[addQ.id].exclude_regions = addQ.q.exclude_regions
          /\ queryTable'[addQ.id].last_timestamp = addQ.q.last_timestamp
          /\ \A id \in QueryIDs \ {addQ.id} : queryTable'[id] = queryTable[id]
      ]_vars

\* "q2" was not configured, was added, read, and added again with another
\* server address and another last timestamp: the row has the second values.
C11_Witness ==
    /\ added = 2 /\ apc = "idle" /\ addErr = Nil
    /\ queryVer["q2"] = 2
    /\ got.id = "q2" /\ got.err = Nil
    /\ queryTable["q2"].existing
    /\ queryTable["q2"].server_addr # got.q.server_addr
    /\ queryTable["q2"].last_timestamp # got.q.last_timestamp

\* C12: while an AddFederationQuery of an existing row is between its SELECT
\* and its commit, the row stays present and a GetFederationQuery of that id
\* returns the row as it was before the call (after the commit it returns
\* the new row), never ErrNotFound; and an AddFederationQuery call that
\* returns an error leaves table FederationQuery as it was.
C12_Atomic ==
    [][/\ (got' # got /\ got'.during) =>
              /\ got'.err = Nil
              /\ got'.q \in {queryTable[got'.id], addQ.q}
              /\ got'.q.existing
       /\ (apc' = "selected" /\ addQ'.existing) => queryTable'[addQ'.id].existing
       /\ (AddReturns /\ addErr' # Nil) => queryTable' = queryTable
       /\ (got' # got /\ queryTable[got'.id].existing) => got'.err = Nil
      ]_vars

\* A reader got the old row while an AddFederationQuery of that id was open;
\* the call then failed at a statement, and the old row is still there.
C12_Witness ==
    /\ got.during /\ got.err = Nil
    /\ apc = "idle" /\ addErr = ErrStatement
    /\ queryTable[got.id] = got.q

\* C13: a finalize call that returns an error, also one that fails at the
\* UPDATE of the history row or at the commit after the UPDATE of the cursor
\* was issued, changes neither table; and any step that changes the cursor of
\* a query is the return of a finalize call that completes its history row
\* in the same step, as a finalize call with insertions that completes its
\* history row sets the cursor of its query, if that query has a row.
C13_AllOrNothing ==
    [][/\ \A r \in Runs :
              /\ (FinalizeReturns(r) /\ finErr'[r] # Nil) =>
                    /\ queryTable' = queryTable
                    /\ syncTable' = syncTable
              /\ (FinalizeReturns(r) /\ finErr'[r] = Nil) =>
                    /\ syncTable'[sync[r].syncID] =
                          Finalized(syncTable[sync[r].syncID], fin[r])
                    /\ (fin[r].totalInserted > 0 /\ fin[r].existing) =>
                          Cursor(sync[r].queryID)' = fin[r].maxTimestamp
       /\ \A id \in QueryIDs :
              (/\ queryTable[id].existing /\ queryTable'[id].existing
               /\ Cursor(id)' # Cursor(id)) =>
                  \/ AddReturns /\ addQ.id = id
                  \/ \E r \in Runs :
                        /\ FinalizeSucceeds(r) /\ sync[r].queryID = id
                        /\ syncTable'[sync[r].syncID].completed # Null
      ]_vars

\* A finalize call with insertions failed at the UPDATE of its history row:
\* the row is not completed and the row of its query was never written.
C13_Witness ==
    \E r \in Runs :
        /\ fpc[r] = "started" /\ finErr[r] = ErrSyncStatement
        /\ fin[r].totalInserted > 0
        /\ queryVer[sync[r].queryID] = 0
        /\ queryTable[sync[r].queryID].existing
        /\ syncTable[sync[r].syncID].completed = Null

\* ========================================================= the region claim
\* The regions of a request.
Requested == {data[i] : i \in 1 .. Len(data)}

\* C14: VerifyRegions fails with 'no allowed regions configured' for a nil
\* configuration, accepts every request when AllowAllRegions is set, and
\* otherwise accepts exactly the requests all of whose regions are in
\* AllowedRegions; a rejection has the text of the unauthorized-region error
\* with the package name of the configuration and a requested region that is
\* not allowed.  The cases of TestVerifyRegions get the errors the test wants.
C14_VerifyRegions ==
    verifyErr # NotVerified =>
        /\ cfg.nil => verifyErr = VerifyError(ErrNoRegions, "", "")
        /\ (~cfg.nil /\ cfg.AllowAllRegions) => verifyErr = NoError
        /\ (~cfg.nil /\ ~cfg.AllowAllRegions) =>
              /\ (verifyErr = NoError) = (Requested \subseteq cfg.AllowedRegions)
              /\ verifyErr # NoError =>
                    /\ verifyErr.msg = ErrUnauthorized
                    /\ verifyErr.app = cfg.AppPackageName
                    /\ verifyErr.region \in Requested \ cfg.AllowedRegions
        /\ \A i \in 1 .. Len(cases) :
              (cfg = cases[i].Cfg /\ data = cases[i].Data) =>
                  verifyErr = cases[i].Msg

\* A request for an allowed and a forbidden region was rejected, naming the
\* caller and the forbidden region.
C14_Witness ==
    /\ cfg = usCaRegions
    /\ data = <<"US", "MX">>
    /\ verifyErr = VerifyError(ErrUnauthorized, appPkgName, "MX")

\* =========================================================== the tool claims
\* The command line is malformed: the query id or the server address is
\* missing or does not match its pattern, or the last timestamp is given and
\* is not RFC3339.
Malformed ==
    \/ flags.queryID = <<>>
    \/ ~Match(validQueryIDStr, flags.queryID, 1, 1)
    \/ flags.serverAddr = <<>>
    \/ \A pat \in validServerAddrStr : ~Match(pat, flags.serverAddr, 1, 1)
    \/ flags.lastTimestamp # <<>> /\ ParseRFC3339(flags.lastTimestamp).err

\* C15: on a malformed command line the tool ends with log.Fatalf and
\* AddFederationQuery is never called, so nothing is written.
C15_NoWrite ==
    (cpc # "start" /\ Malformed) =>
        /\ cpc = "fatal" /\ exit # ""
        /\ added = 0 /\ apc = "idle"
        /\ queryVer[flags.queryID] = 0

\* The tool was given a good id and a good address and a last timestamp
\* that is no date of the calendar, and ended before the call.
C15_Witness ==
    /\ cpc = "fatal" /\ exit = "failed to parse --last-timestamp"
    /\ flags.queryID = <<"q", "1">>
    /\ flags.lastTimestamp # <<>> /\ Len(flags.lastTimestamp) = 20
    /\ added = 0

\* main has accepted the query id: it did not end with one of the two
\* messages about the query id.
QueryIDAccepted ==
    cpc # "start" /\ exit \notin {"query-id is required", "query-id must match"}

IDClass == Lower \cup Digit \cup {"-", "_"}

\* C16 as stated: the ids accepted are exactly the non-empty strings of
\* lowercase letters, digits, hyphens and underscores that start and end
\* with a letter or a digit.
C16_Original ==
    cpc # "start" =>
        (QueryIDAccepted <=>
            /\ Len(flags.queryID) >= 1
            /\ \A i \in 1 .. Len(flags.queryID) : flags.queryID[i] \in IDClass
            /\ flags.queryID[1] \in Lower \cup Digit
            /\ flags.queryID[Len(flags.queryID)] \in Lower \cup Digit)

\* C16 as amended: the ids accepted are exactly the strings of at least two
\* characters, all lowercase letters, digits, hyphens or underscores, that
\* start with a lowercase letter and end with a lowercase letter or a digit.
C16_Pattern ==
    cpc # "start" =>
        (QueryIDAccepted <=>
            /\ Len(flags.queryID) >= 2
            /\ \A i \in 1 .. Len(flags.queryID) : flags.queryID[i] \in IDClass
            /\ flags.queryID[1] \in Lower
            /\ flags.queryID[Len(flags.queryID)] \in Lower \cup Digit)

\* The tool accepted an id with an underscore in the middle and wrote its
\* row.
C16_Witness ==
    /\ cpc = "done"
    /\ flags.queryID = <<"q", "_", "1">>
    /\ queryTable[flags.queryID].existing
    /\ queryTable[flags.queryID].server_addr = flags.serverAddr

\* ================================================= the export server claims
\* C17: whatever the environment holds, the export server can start; once it
\* serves, its controller timeout is 5 minutes when CREATE_BATCHES_TIMEOUT is
\* unset or no duration and the duration it states otherwise ("5m" is five
\* minutes, "-5m" minus five minutes, "0" zero), and its maximum of records
\* per file is 30000 when EXPORT_FILE_MAX_RECORDS is unset or no integer and
\* that integer otherwise.
C17_Defaults ==
    /\ epc = "start" => ENABLED (ExportMain /\ epc' = "serving")
    /\ epc = "serving" =>
          LET t == env.CREATE_BATCHES_TIMEOUT
              m == env.EXPORT_FILE_MAX_RECORDS
          IN  /\ bsc.CreateTimeout =
                    IF t = <<>> \/ ParseDuration(t).err
                    THEN 300000
                    ELSE ParseDuration(t).d
              /\ t = <<"5", "m">> => bsc.CreateTimeout = 300000
              /\ t = <<"-", "5", "m">> => bsc.CreateTimeout = -300000
              /\ t = <<"0">> => bsc.CreateTimeout = 0
              /\ t \in {<<"5">>, <<"m">>, <<"-">>, <<"5", "m", "m">>} =>
                    bsc.CreateTimeout = 300000
              /\ bsc.MaxRecords =
                    IF m = <<>> \/ Atoi(m).err THEN 30000 ELSE Atoi(m).n
              /\ m = <<"3", "3">> => bsc.MaxRecords = 33
              /\ m = <<"-", "3">> => bsc.MaxRecords = -3
              /\ m \in {<<"x">>, <<"3", "x">>, <<"-">>} => bsc.MaxRecords = 30000

\* The server serves with both defaults, after it found a timeout without a
\* unit and a maximum that is no number in its environment.
C17_Witness ==
    /\ epc = "serving"
    /\ env.CREATE_BATCHES_TIMEOUT = <<"5">>
    /\ env.EXPORT_FILE_MAX_RECORDS = <<"3", "x">>
    /\ bsc.CreateTimeout = defaultTimeout
    /\ bsc.MaxRecords = defaultMaxRecords

\* C18: once the controller has run over n records with a cap m > 0, there
\* are ceil(n/m) work items and the controller returned that count: none
\* when n = 0, batch 1 of 1 with all records when 0 < n <= m; the items are
\* numbered from 1 in order, each holds between 1 and m records and each but
\* the last exactly m, their sizes sum to n, and each carries the same
\* count; 75000 records capped at 30000 give 30000, 30000, 15000, each of 3.
RECURSIVE SumRecords(_, _)
SumRecords(items, i) ==
    IF i = 0 THEN 0 ELSE items[i].Records + SumRecords(items, i - 1)

C18_Batches ==
    batches # Null =>
        LET n == records
            m == bsc.MaxRecords
            k == (n + m - 1) \div m
        IN  /\ m > 0
            /\ Len(workItems) = k
            /\ batches = k
            /\ n = 0 => workItems = <<>>
            /\ (0 < n /\ n <= m) =>
                  workItems = <<[BatchNum |-> 1, BatchSize |-> 1, Records |-> n]>>
            /\ \A i \in 1 .. k :
                  /\ workItems[i].BatchNum = i
                  /\ workItems[i].BatchSize = k
                  /\ workItems[i].Records \in 1 .. m
                  /\ i < k => workItems[i].Records = m
            /\ SumRecords(workItems, k) = n
            /\ (n = 75000 /\ m = 30000) =>
                  workItems = <<[BatchNum |-> 1, BatchSize |-> 3, Records |-> 30000],
                                [BatchNum |-> 2, BatchSize |-> 3, Records |-> 30000],
                                [BatchNum |-> 3, BatchSize |-> 3, Records |-> 15000]>>

\* The controller of a server with the default cap has run over 75000
\* records and returned 3, the last batch being the smaller one.
C18_Witness ==
    /\ records = 75000
    /\ env.EXPORT_FILE_MAX_RECORDS = <<>>
    /\ batches = 3
    /\ workItems[3].Records = 15000

\* ===================================================== Lock's transaction
\* C19: a Lock call returns once; when it returns no error it returns an
\* unlock handle and its transaction has committed the row of its lock id
\* with its expiry; when it returns an error (ErrAlreadyLocked, a failed
\* statement or a failed commit) the Lock table is what it was before the
\* return and the caller is no holder; and what a call has returned never
\* changes afterwards.
C19_CommitOnce ==
    [][\A p \in Callers :
          /\ (LockReturns(p) /\ err'[p] = Nil) =>
                /\ unlockFn'[p]
                /\ lockTable' = [lockTable EXCEPT ![lockID[p]] = Row(expiry[p])]
                /\ lockVer'[lockID[p]] = lockVer[lockID[p]] + 1
                /\ lockVer[lockID[p]] = snap[p].ver
          /\ (LockReturns(p) /\ err'[p] # Nil) =>
                /\ err'[p] \in {ErrAlreadyLocked, ErrStatement, ErrCommit}
                /\ lockTable' = lockTable
                /\ lockVer' = lockVer
                /\ ~Holder(p)'
                /\ err'[p] # ErrCommit => ~unlockFn'[p]
          /\ LockReturned(p) =>
                /\ LockReturned(p)'
                /\ err'[p] = err[p]
                /\ unlockFn'[p] = unlockFn[p]
                /\ err[p] # Nil => ~Holder(p)'
      ]_vars

\* A Lock call has returned the error of its failed commit and the row of its
\* lock id is still absent, while another call has returned ErrAlreadyLocked
\* for a lock that a third one holds.
C19_Witness ==
    \E p, q, r \in Callers :
        /\ pc[p] = "returned" /\ err[p] = ErrCommit
        /\ ~lockTable[lockID[p]].existing
        /\ pc[q] = "returned" /\ err[q] = ErrAlreadyLocked /\ ~unlockFn[q]
        /\ lockID[r] = lockID[q] /\ Holder(r)
        /\ lockTable[lockID[r]] = Row(expiry[r])

\* ====================================================== the sync history
\* The step in which StartFederationSync returns to run r.
SyncStarts(r) == fpc[r] = "idle" /\ fpc'[r] = "started"

\* The step in which run r calls finalize.
FinalizeCalled(r) == fpc[r] = "started" /\ fpc'[r] = "finalizing"

\* What StartFederationSync and finalize record in table FederationSync:
\* the row of a new sync has an id no row and no other run has, the query id
\* and the started time of the caller, and no completion data; a row gets
\* its completion data only in the step in which a finalize call of its own
\* run commits, and completed is then started plus the difference of the
\* wall clock readings of the finalize call and of StartFederationSync.
SyncRecorded ==
    /\ \A r \in Runs :
          /\ SyncStarts(r) =>
                /\ ~syncTable[sync'[r].syncID].existing
                /\ \A o \in Runs \ {r} :
                      fpc[o] # "idle" => sync[o].syncID # sync'[r].syncID
                /\ sync'[r].startedTimer = now
                /\ syncTable' =
                      [syncTable EXCEPT ![sync'[r].syncID] =
                          [existing |-> TRUE, query_id |-> sync'[r].queryID,
                           started |-> sync'[r].started, completed |-> Null,
                           insertions |-> Null, max_timestamp |-> Null]]
          /\ FinalizeCalled(r) =>
                fin'[r].completed =
                    sync[r].started + (now - sync[r].startedTimer)
          /\ FinalizeSucceeds(r) =>
                /\ syncTable'[sync[r].syncID].completed = fin[r].completed
                /\ syncTable'[sync[r].syncID].started = sync[r].started
    /\ \A sid \in SyncIDs :
          (syncTable[sid].existing /\ syncTable'[sid] # syncTable[sid]) =>
              \E r \in Runs : FinalizeSucceeds(r) /\ sync[r].syncID = sid

\* C20 as stated: the history row is recorded as above, and the completed
\* time of a row is never earlier than its started time.
C20_Original ==
    [][/\ SyncRecorded
       /\ \A sid \in SyncIDs :
             (syncTable'[sid].existing /\ syncTable'[sid].completed # Null) =>
                 syncTable'[sid].completed >= syncTable'[sid].started
      ]_vars

\* ======================================================= release and re-lock
\* The step in which the unlock handle of p returns.
UnlockReturns(p) == pc[p] = "unlocking" /\ pc'[p] = "returned"

\* C21: an unlock handle that returns no error leaves no row of its lock id
\* when its DELETE found one, also before the expiry of that row; a Lock call
\* that finds no row of its lock id never returns ErrAlreadyLocked, can
\* commit at once unless another transaction wrote the row in between, and
\* then holds the lock until its expiry; an unlock handle whose DELETE finds
\* no row leaves the Lock table as it is, never returns the error of a failed
\* statement and can return nil; and every Lock call and unlock handle reads
\* the row of its own lock id only, and only the row of that id is ever
\* changed.
C21_Release ==
    [][/\ \A p \in Callers :
             /\ (UnlockReturns(p) /\ unlockErr'[p] = Nil /\ snap[p].row.existing) =>
                   /\ lockTable'[lockID[p]] = NoRow
                   /\ \A q \in Callers, d \in TTLs :
                         (pc[q] = "idle" /\ Started(q)) =>
                             (ENABLED LockSelect(q, lockID[p], d))'
             /\ (pc[p] = "selected" /\ ~l(p).existing /\ lockVer[lockID[p]] = snap[p].ver) =>
                   ENABLED LockCommit(p)
             /\ (LockReturns(p) /\ ~l(p).existing) =>
                   /\ err'[p] # ErrAlreadyLocked
                   /\ err'[p] = Nil =>
                         /\ unlockFn'[p]
                         /\ lockTable'[lockID[p]] = Row(expiry[p])
                         /\ now <= expiry[p] => Holder(p)'
             /\ (pc[p] = "unlocking" /\ ~snap[p].row.existing) =>
                   ENABLED (UnlockCommit(p) /\ unlockErr'[p] = Nil)
             /\ (UnlockReturns(p) /\ ~snap[p].row.existing) =>
                   /\ unlockErr'[p] # ErrStatement
                   /\ lockTable' = lockTable
                   /\ lockVer' = lockVer
             /\ (pc[p] # pc'[p] /\ pc'[p] \in {"selected", "unlocking"}) =>
                   snap'[p] = Snapshot(lockTable[lockID'[p]], lockVer[lockID'[p]])
       /\ \A id \in LockIDs :
             (lockTable'[id] # lockTable[id] \/ lockVer'[id] # lockVer[id]) =>
                 \E p \in Callers :
                     /\ lockID[p] = id
                     /\ LockReturns(p) \/ UnlockReturns(p)
      ]_vars

\* A holder has released its lock and invoked its handle once more, both
\* without error and before its expiry; a caller that called Lock after the
\* release holds the lock whose row the second invocation left alone, and a
\* third caller holds the other lock.
C21_Witness ==
    \E p, q, r \in Callers :
        /\ lockID[p] = lockID[q] /\ lockID[r] \notin {lockID[q], NoID}
        /\ Succeeded(q) /\ pc[q] = "returned"
        /\ invoked[q] = 2 /\ unlockErr[q] = Nil
        /\ now <= expiry[q]
        /\ Holder(p) /\ seen[p].ver = 2 /\ lockVer[lockID[p]] = 3
        /\ lockTable[lockID[p]] = Row(expiry[p])
        /\ Holder(r) /\ lockTable[lockID[r]] = Row(expiry[r])

====
